---------------------------- MODULE Spec2Model ----------------------------
(***************************************************************************)
(* A model of the high-performance-webserver crate: the Router (ordered    *)
(* route list, first exact match wins), the error taxonomy and its status  *)
(* mapping, the Response builder's wire conversion, the per-request        *)
(* dispatch function handle_request / error_response, and the Server       *)
(* lifecycle (run, run_with_graceful_shutdown) over hyper's listener.      *)
(*                                                                         *)
(* Text (paths, URIs, error messages, bodies) is a sequence of one-        *)
(* character strings, so that string equality, prefixing and formatting    *)
(* are computed, not assumed.                                              *)
(***************************************************************************)
EXTENDS Naturals, Sequences, FiniteSets

VARIABLES
    router,     \* the Router value the caller is building: its Vec<Route>
    attached,   \* whether with_router has moved that Router into the Server
    srvRouter,  \* Server.router: the routes behind the Arc<Router>
    state,      \* lifecycle of the Server: Constructed, Running, Draining, Stopped
    mode,       \* which entry point was called: "none", "run", "graceful"
    listener,   \* hyper's listener: unbound, bind_failed, listening, failed, closed
    signal,     \* whether the shutdown future has resolved
    result,     \* what the run call gave its caller: "pending", "Ok", "ErrHyper", "panic"
    conns,      \* per connection slot: the connection and the request it is serving
    atSignal,   \* history: the slots with a request in flight when the signal resolved
    served,     \* history: those of atSignal whose response has been written since
    tracingInits, \* how many times this process has called tracing_subscriber::fmt::init()
    building,   \* the builder chain a handler is writing: Ok(Response) or Err(error)
    calls       \* history: the builder calls applied to Response::new() so far

vars == <<router, attached, srvRouter, state, mode, listener, signal, result, conns,
          atSignal, served, tracingInits, building, calls>>

---------------------------------------------------------------------------
(* Bounds of the model *)

\* the longest route list a caller registers
MaxRoutes == 2
\* the number of connection slots the listener can have open at once
MaxConns == 2
MaxCalls == 2

---------------------------------------------------------------------------
(* Text *)

IsPrefix(p, s) ==
    /\ Len(p) <= Len(s)
    /\ SubSeq(s, 1, Len(p)) = p

\* the index of the first occurrence of character ch in s, or Len(s)+1
RECURSIVE IndexOf(_, _, _)
IndexOf(s, ch, i) ==
    IF i > Len(s) THEN i
    ELSE IF s[i] = ch THEN i
    ELSE IndexOf(s, ch, i + 1)

P_Root      == <<"/">>
P_Health    == <<"/", "h", "e", "a", "l", "t", "h">>
P_Users     == <<"/", "u", "s", "e", "r", "s">>
P_UsersSl   == <<"/", "u", "s", "e", "r", "s", "/">>
P_UsersCap  == <<"/", "U", "s", "e", "r", "s">>
P_Users1    == <<"/", "u", "s", "e", "r", "s", "/", "1">>
P_Stats     == <<"/", "a", "p", "i", "/", "s", "t", "a", "t", "s">>
P_AsyncDemo == <<"/", "a", "s", "y", "n", "c", "-", "d", "e", "m", "o">>
P_Missing   == <<"/", "m", "i", "s", "s", "i", "n", "g">>
Q_Q         == <<"q">>

---------------------------------------------------------------------------
(* router.rs: Method, Route, Router *)

\* enum Method
Method == {"GET", "POST", "PUT", "DELETE", "PATCH", "HEAD", "OPTIONS"}

\* hyper's method type: the seven above and every other token, here TRACE
HttpMethod == Method \cup {"TRACE"}

\* a faulty conversion: every method collapses to GET
MethodFromGetOnly(m) ==
    "GET"

\* a faulty conversion: an unrecognised method collapses to POST
MethodFromUnknownPost(m) ==
    IF m \in Method THEN m ELSE "POST"

\* impl From<&HttpMethod> for Method
MethodFrom(m) ==
    IF m \in Method THEN m ELSE "GET"

\* #[derive(Debug)] on Method: format!("{:?}", method)
MethodDebug(m) ==
    CASE m = "GET"     -> <<"G", "E", "T">>
      [] m = "POST"    -> <<"P", "O", "S", "T">>
      [] m = "PUT"     -> <<"P", "U", "T">>
      [] m = "DELETE"  -> <<"D", "E", "L", "E", "T", "E">>
      [] m = "PATCH"   -> <<"P", "A", "T", "C", "H">>
      [] m = "HEAD"    -> <<"H", "E", "A", "D">>
      [] m = "OPTIONS" -> <<"O", "P", "T", "I", "O", "N", "S">>

\* Route::new: the handler is boxed into the route's own HandlerFn
RouteNew(method, path, handler) ==
    [method |-> method, path |-> path, handler |-> handler]

\* Router::new
RouterNew == <<>>

\* Router::get / post / put / delete / patch / route: push and return self
RouterGet(r, path, h)    == Append(r, RouteNew("GET", path, h))
RouterPost(r, path, h)   == Append(r, RouteNew("POST", path, h))
RouterPut(r, path, h)    == Append(r, RouteNew("PUT", path, h))
RouterDelete(r, path, h) == Append(r, RouteNew("DELETE", path, h))
\* a faulty patch: it registers the route under PUT
RouterPatchAsPut(r, path, h) == Append(r, RouteNew("PUT", path, h))

RouterPatch(r, path, h)  == Append(r, RouteNew("PATCH", path, h))
RouterRoute(r, method, path, h) == Append(r, RouteNew(method, path, h))

\* the request target the transport parsed: the path, then "?" and the query
\* when there is one (query is <<>> or <<text>>)
Uri(path, query) ==
    IF query = <<>> THEN path ELSE path \o <<"?">> \o query[1]

\* a faulty path: the whole request target, query included
UriPathWithQuery(uri) ==
    IF uri = <<>> THEN <<"/">> ELSE uri

\* Uri::path: the request target up to the query, "/" when that is empty
UriPath(uri) ==
    LET p == SubSeq(uri, 1, IndexOf(uri, "?", 1) - 1)
    IN  IF p = <<>> THEN <<"/">> ELSE p

\* a faulty match: the route's path need only begin the request's
PathMatchesPrefix(route_path, request_path) ==
    IsPrefix(route_path, request_path)

\* Router::path_matches
PathMatches(route_path, request_path) ==
    route_path = request_path

\* the loop of Router::handle: the index of the first route, from i on, whose
\* method and path match, or 0 when the list is exhausted
RECURSIVE FirstMatch(_, _, _, _)
FirstMatch(routes, method, path, i) ==
    IF i > Len(routes) THEN 0
    ELSE IF routes[i].method = method /\ PathMatches(routes[i].path, path) THEN i
    ELSE FirstMatch(routes, method, path, i + 1)

\* a faulty loop scanning from the back: the last match wins
RECURSIVE LastMatchFrom(_, _, _, _)
LastMatchFrom(routes, method, path, i) ==
    IF i = 0 THEN 0
    ELSE IF routes[i].method = method /\ PathMatches(routes[i].path, path) THEN i
    ELSE LastMatchFrom(routes, method, path, i - 1)

RouteLookupLast(routes, req) ==
    LastMatchFrom(routes, MethodFrom(req.method), UriPath(req.uri), Len(routes))

\* Router::handle up to the await: the route selected for the request (0: none)
RouteLookup(routes, req) ==
    FirstMatch(routes, MethodFrom(req.method), UriPath(req.uri), 1)

---------------------------------------------------------------------------
(* error.rs: ServerError, its Display text and its status *)

ErrorKind == {"Http", "Hyper", "Io", "Json", "RouteNotFound", "BadRequest", "Internal"}

NoError == [kind |-> "none", method |-> <<>>, path |-> <<>>, msg |-> <<>>]

\* ServerError::RouteNotFound { method, path }
RouteNotFound(method, path) ==
    [kind |-> "RouteNotFound", method |-> method, path |-> path, msg |-> <<>>]

\* the tuple variants Http(e), Hyper(e), Io(e), Json(e), BadRequest(s), Internal(s);
\* msg is the wrapped error's own text, or the string
ErrorOf(kind, msg) ==
    [kind |-> kind, method |-> <<>>, path |-> <<>>, msg |-> msg]

S_Http          == <<"H", "T", "T", "P", " ", "e", "r", "r", "o", "r", ":", " ">>
S_Hyper         == <<"H", "y", "p", "e", "r", " ", "e", "r", "r", "o", "r", ":", " ">>
S_Io            == <<"I", "O", " ", "e", "r", "r", "o", "r", ":", " ">>
S_Json          == <<"J", "S", "O", "N", " ", "p", "a", "r", "s", "i", "n", "g", " ",
                     "e", "r", "r", "o", "r", ":", " ">>
S_RouteNotFound == <<"R", "o", "u", "t", "e", " ", "n", "o", "t", " ", "f", "o", "u",
                     "n", "d", ":", " ">>
S_BadRequest    == <<"B", "a", "d", " ", "r", "e", "q", "u", "e", "s", "t", ":", " ">>
S_Internal      == <<"I", "n", "t", "e", "r", "n", "a", "l", " ", "s", "e", "r", "v",
                     "e", "r", " ", "e", "r", "r", "o", "r", ":", " ">>

\* #[error("...")] on each variant: the error's human-readable message
Display(e) ==
    CASE e.kind = "Http"          -> S_Http \o e.msg
      [] e.kind = "Hyper"         -> S_Hyper \o e.msg
      [] e.kind = "Io"            -> S_Io \o e.msg
      [] e.kind = "Json"          -> S_Json \o e.msg
      [] e.kind = "RouteNotFound" -> S_RouteNotFound \o e.method \o <<" ">> \o e.path
      [] e.kind = "BadRequest"    -> S_BadRequest \o e.msg
      [] e.kind = "Internal"      -> S_Internal \o e.msg

\* hyper::StatusCode values used by the crate
OK                    == 200
CREATED               == 201
BAD_REQUEST           == 400
NOT_FOUND             == 404
INTERNAL_SERVER_ERROR == 500

\* a faulty mapping: every error is a 500
StatusCodeAll500(e) ==
    INTERNAL_SERVER_ERROR

\* ServerError::status_code
StatusCode(e) ==
    CASE e.kind = "RouteNotFound" -> NOT_FOUND
      [] e.kind = "BadRequest"    -> BAD_REQUEST
      [] OTHER                    -> INTERNAL_SERVER_ERROR

\* Result<T>: Ok(v) or Err(e)
NoResponse == [status |-> 0, headers |-> [k \in {} |-> ""], body |-> <<>>]
NoResult   == [tag |-> "none", val |-> NoResponse, err |-> NoError]
Ok(v)      == [tag |-> "Ok", val |-> v, err |-> NoError]
Err(e)     == [tag |-> "Err", val |-> NoResponse, err |-> e]

---------------------------------------------------------------------------
(* response.rs: the Response builder and its conversion to hyper's response *)

\* Response::new
ResponseNew == [status |-> OK, headers |-> [k \in {} |-> ""], body |-> <<>>]

\* Response::status
ResponseStatus(r, status) == [r EXCEPT !.status = status]

\* Response::header: HashMap::insert, the last write per key wins
ResponseHeader(r, key, value) ==
    [r EXCEPT !.headers =
        [k \in (DOMAIN r.headers) \cup {key} |-> IF k = key THEN value ELSE r.headers[k]]]

\* Response::body
ResponseBody(r, body) == [r EXCEPT !.body = body]

\* a faulty text: it starts from a new Response, dropping what was set
ResponseTextFresh(r, text) ==
    ResponseBody(ResponseHeader(ResponseNew, "Content-Type", "text/plain"), text)

\* Response::text, Response::html
ResponseText(r, text) == ResponseBody(ResponseHeader(r, "Content-Type", "text/plain"), text)
ResponseHtml(r, html) == ResponseBody(ResponseHeader(r, "Content-Type", "text/html"), html)

\* Response::json: serde_json::to_string(value)? fails with ServerError::Json;
\* ser is the serializer's result for the value, Ok(text) or Err(Json error)
ResponseJson(r, ser) ==
    IF ser.tag = "Ok"
    THEN Ok(ResponseBody(ResponseHeader(r, "Content-Type", "application/json"), ser.val))
    ELSE Err(ser.err)

\* http::HeaderName::try_from: a token of visible characters, no space
HeaderNameValid(key) == key \notin {"Bad Name", ""}

\* http::HeaderValue::try_from: no control characters
HeaderValueValid(value) == value \notin {"bad\nvalue"}

\* http::HeaderName is case-insensitive and stored in lower case
HeaderNameLower(key) ==
    CASE key = "Content-Type" -> "content-type"
      [] key = "X-Id"         -> "x-id"
      [] OTHER                -> key

\* hyper::Response::builder().status(s).header(k, v)*.body(b): fails with an
\* http::Error when a header name or value is not valid; headers given are
\* the builder's calls, as a map from the given name to the given value.
\* The built response maps each lower-case name to the set of its values.
S_InvalidHeader == <<"i", "n", "v", "a", "l", "i", "d", " ", "h", "e", "a", "d", "e", "r">>

HyperBuild(status, headers, body) ==
    IF \A k \in DOMAIN headers : HeaderNameValid(k) /\ HeaderValueValid(headers[k])
    THEN Ok([status  |-> status,
             headers |-> [n \in {HeaderNameLower(k) : k \in DOMAIN headers} |->
                             {headers[k] : k \in {x \in DOMAIN headers : HeaderNameLower(x) = n}}],
             body    |-> body])
    ELSE Err(ErrorOf("Http", S_InvalidHeader))

\* Response::into_hyper_response
IntoHyperResponse(r) ==
    HyperBuild(r.status, r.headers, r.body)

---------------------------------------------------------------------------
(* server.rs: error_response and handle_request *)

S_ErrorOpen  == <<"{", "\"", "e", "r", "r", "o", "r", "\"", ":", " ", "\"">>
S_ErrorClose == <<"\"", "}">>
S_Fallback   == <<"I", "n", "t", "e", "r", "n", "a", "l", " ", "S", "e", "r", "v", "e",
                  "r", " ", "E", "r", "r", "o", "r">>

\* the closure of unwrap_or_else: a bare 500 with a plain-text body
FallbackResponse ==
    HyperBuild(INTERNAL_SERVER_ERROR, [k \in {} |-> ""], S_Fallback).val

\* error_response
ErrorResponse(error) ==
    LET status == StatusCode(error)
        body   == S_ErrorOpen \o Display(error) \o S_ErrorClose
        built  == HyperBuild(status, [k \in {"Content-Type"} |-> "application/json"], body)
    IN  IF built.tag = "Ok" THEN built.val ELSE FallbackResponse

\* a line of the log: info!/warn!/error! with the values formatted into it
LogLine(level, what, method, path, status) ==
    [level |-> level, what |-> what, method |-> method, path |-> path, status |-> status]

\* a faulty dispatch: an error is passed on to the transport instead of
\* being turned into a response
HandleResultPropagates(req, res) ==
    LET conv == IF res.tag = "Ok" THEN IntoHyperResponse(res.val) ELSE res
    IN  IF conv.tag = "Ok"
        THEN [resp  |-> conv.val,
              error |-> NoError,
              log   |-> <<LogLine("INFO", "request", req.method, UriPath(req.uri), 200)>>]
        ELSE [resp  |-> NoResponse,
              error |-> conv.err,
              log   |-> <<>>]

\* handle_request after router.handle(req).await gave res: the response handed
\* to the transport, the error (if any) it was made from, and the lines logged
HandleResult(req, res) ==
    LET method == req.method
        path   == UriPath(req.uri)
    IN  IF res.tag = "Ok"
        THEN LET conv == IntoHyperResponse(res.val)
             IN  IF conv.tag = "Ok"
                 THEN [resp  |-> conv.val,
                       error |-> NoError,
                       log   |-> <<LogLine("INFO", "request", method, path, 200)>>]
                 ELSE [resp  |-> ErrorResponse(conv.err),
                       error |-> conv.err,
                       log   |-> <<LogLine("ERROR", "conversion", method, path, 0)>>]
        ELSE LET status_code == StatusCode(res.err)
             IN  [resp  |-> ErrorResponse(res.err),
                  error |-> res.err,
                  log   |-> IF status_code = NOT_FOUND
                            THEN <<LogLine("WARN", "request", method, path, 404)>>
                            ELSE <<LogLine("ERROR", "request", method, path, status_code)>>]

---------------------------------------------------------------------------
(* Requests, handler results and connections *)

Conns == 1..MaxConns

NoQuery == <<>>
SomeQuery(q) == <<q>>

NoReq == [method |-> "none", path |-> <<>>, query |-> NoQuery, uri |-> <<>>]

\* a request a client sends: its method, path and query; uri is what
\* req.uri() holds
Request(method, path, query) ==
    [method |-> method, path |-> path, query |-> query, uri |-> Uri(path, query)]

\* a connection slot; while a request is being served: the request, the
\* handlers invoked for it, what the handler's future resolved to, what
\* Router::handle returned, the error the response was made from, the
\* response given to the transport, the lines logged
ClosedConn ==
    [st |-> "closed", req |-> NoReq, invoked |-> <<>>, returned |-> NoResult,
     result |-> NoResult, error |-> NoError, resp |-> NoResponse, log |-> <<>>]

FreshConn == [ClosedConn EXCEPT !.st = "fresh"]
IdleConn  == [ClosedConn EXCEPT !.st = "idle"]

InFlight(c) == conns[c].st \in {"suspended", "responded"}

S_Boom  == <<"b", "o", "o", "m">>
S_SayHi == <<"s", "a", "y", " ", "\"", "h", "i", "\"">>
S_Json1 == <<"{", "\"", "a", "\"", ":", "1", "}">>

\* responses a handler builds (main.rs: Response::new().json(..),
\* .status(StatusCode::CREATED).json(..), and one with a header hyper rejects)
HandlerResponses ==
    { ResponseJson(ResponseNew, Ok(S_Json1)).val,
      ResponseJson(ResponseStatus(ResponseNew, CREATED), Ok(S_Json1)).val,
      ResponseHeader(ResponseText(ResponseNew, S_Boom), "Bad Name", "x") }

\* errors a handler returns: every kind with a plain message, and
\* BadRequest and Internal also with a message that holds a quote
HandlerErrors ==
    { ErrorOf(k, S_Boom) : k \in ErrorKind \ {"RouteNotFound"} }
    \cup { ErrorOf(k, S_SayHi) : k \in {"BadRequest", "Internal"} }
    \cup { RouteNotFound(MethodDebug("GET"), P_Missing) }

\* what a handler's future resolves to
Outcomes == { Ok(r) : r \in HandlerResponses } \cup { Err(e) : e \in HandlerErrors }

---------------------------------------------------------------------------
(* Building the Router and the Server *)

\* each registration boxes a handler of its own; it is named by its ordinal
NewHandler(r) == Len(r) + 1

CanRegister ==
    /\ state = "Constructed"
    /\ ~attached
    /\ Len(router) < MaxRoutes

BuildFrame == UNCHANGED <<attached, srvRouter, state, mode, listener, signal, result, conns, atSignal, served,
                          tracingInits, building, calls>>

Get(path) ==
    /\ CanRegister
    /\ router' = RouterGet(router, path, NewHandler(router))
    /\ BuildFrame

Post(path) ==
    /\ CanRegister
    /\ router' = RouterPost(router, path, NewHandler(router))
    /\ BuildFrame

Put(path) ==
    /\ CanRegister
    /\ router' = RouterPut(router, path, NewHandler(router))
    /\ BuildFrame

Delete(path) ==
    /\ CanRegister
    /\ router' = RouterDelete(router, path, NewHandler(router))
    /\ BuildFrame

Patch(path) ==
    /\ CanRegister
    /\ router' = RouterPatch(router, path, NewHandler(router))
    /\ BuildFrame

Route(method, path) ==
    /\ CanRegister
    /\ router' = RouterRoute(router, method, path, NewHandler(router))
    /\ BuildFrame

\* main.rs: the router of the demonstration server, handlers 1..7 in order
MainRouter ==
    RouterGet(RouterGet(RouterPost(RouterGet(RouterGet(RouterGet(RouterGet(RouterNew,
        P_Root, 1), P_Health, 2), P_Users, 3), P_Users1, 4), P_Users, 5), P_Stats, 6),
        P_AsyncDemo, 7)

BuildMain ==
    /\ state = "Constructed"
    /\ ~attached
    /\ router = RouterNew
    /\ router' = MainRouter
    /\ BuildFrame

\* Server::with_router: the Router moves into a new Arc
WithRouter ==
    /\ state = "Constructed"
    /\ ~attached
    /\ attached' = TRUE
    /\ srvRouter' = router
    /\ UNCHANGED <<router, state, mode, listener, signal, result, conns, atSignal, served,
                   tracingInits, building, calls>>

---------------------------------------------------------------------------
(* Server::run and Server::run_with_graceful_shutdown *)

\* HyperServer::bind(&self.addr): hyper's Server::bind panics when the address
\* cannot be bound (only try_bind returns the error)
HyperBind(bindOk) ==
    IF bindOk THEN "listening" ELSE "panic"

\* tracing_subscriber::fmt::init(): installs the process-wide subscriber, and
\* panics when one has been installed before
TracingInit(inits) ==
    IF inits = 0 THEN "installed" ELSE "panic"

\* the call, up to the point where the serving future is awaited
Run(graceful, bindOk) ==
    /\ state = "Constructed"
    /\ mode' = IF graceful THEN "graceful" ELSE "run"
    /\ tracingInits' = tracingInits + 1
    /\ IF TracingInit(tracingInits) = "panic"
       THEN /\ listener' = listener
            /\ state' = "Stopped"
            /\ result' = TracingInit(tracingInits)
       ELSE IF HyperBind(bindOk) = "listening"
            THEN /\ listener' = "listening"
                 /\ state' = "Running"
                 /\ result' = "pending"
            ELSE /\ listener' = "bind_failed"
                 /\ state' = "Stopped"
                 /\ result' = HyperBind(bindOk)
    /\ UNCHANGED <<router, attached, srvRouter, signal, conns, atSignal, served, building, calls>>

\* run or run_with_graceful_shutdown of another Server value of this process,
\* called before this one's: its first statement initialises tracing
OtherServerRun ==
    /\ state = "Constructed"
    /\ tracingInits = 0
    /\ TracingInit(tracingInits) = "installed"
    /\ tracingInits' = tracingInits + 1
    /\ UNCHANGED <<router, attached, srvRouter, state, mode, listener, signal, result, conns,
                   atSignal, served, building, calls>>

\* a faulty listener: it accepts only while no request is being served
AcceptBlocking(c) ==
    /\ state = "Running"
    /\ listener = "listening"
    /\ conns[c].st = "closed"
    /\ \A d \in Conns : conns[d].st \notin {"suspended", "responded"}
    /\ conns' = [conns EXCEPT ![c] = [ClosedConn EXCEPT !.st = "fresh"]]
    /\ UNCHANGED <<router, attached, srvRouter, state, mode, listener, signal, result, atSignal, served,
                   tracingInits, building, calls>>

\* the listener accepts a connection; make_service_fn gives it a service
\* holding a clone of the Arc<Router>
Accept(c) ==
    /\ state = "Running"
    /\ listener = "listening"
    /\ conns[c].st = "closed"
    /\ conns' = [conns EXCEPT ![c] = FreshConn]
    /\ UNCHANGED <<router, attached, srvRouter, state, mode, listener, signal, result, atSignal, served,
                   tracingInits, building, calls>>

\* the client closes a connection on which no request is being served
ClientClose(c) ==
    /\ conns[c].st \in {"fresh", "idle"}
    /\ conns' = [conns EXCEPT ![c] = ClosedConn]
    /\ UNCHANGED <<router, attached, srvRouter, state, mode, listener, signal, result, atSignal, served,
                   tracingInits, building, calls>>

\* a faulty miss: the error carries the whole request target, query included
RouterHandleMissRawUri(req) ==
    Err(RouteNotFound(MethodDebug(MethodFrom(req.method)), req.uri))

\* Router::handle when no route matches
RouterHandleMiss(req) ==
    Err(RouteNotFound(MethodDebug(MethodFrom(req.method)), UriPath(req.uri)))

\* the handlers of all the routes that match, in registration order
RECURSIVE AllMatches(_, _, _)
AllMatches(routes, req, i) ==
    IF i > Len(routes) THEN <<>>
    ELSE (IF routes[i].method = MethodFrom(req.method) /\ PathMatches(routes[i].path, UriPath(req.uri))
          THEN <<routes[i].handler>> ELSE <<>>) \o AllMatches(routes, req, i + 1)

\* a faulty dispatch: the loop does not stop at the first match
DispatchInvokesAll(c, req) ==
    /\ state \in {"Running", "Draining"}
    /\ conns[c].st \in {"fresh", "idle"}
    /\ LET i == RouteLookup(srvRouter, req)
       IN  IF i # 0
           THEN conns' = [conns EXCEPT ![c] =
                    [ClosedConn EXCEPT !.st = "suspended", !.req = req,
                                       !.invoked = AllMatches(srvRouter, req, 1)]]
           ELSE LET res == RouterHandleMiss(req)
                    hr  == HandleResult(req, res)
                IN  conns' = [conns EXCEPT ![c] =
                        [st |-> "responded", req |-> req, invoked |-> <<>>,
                         returned |-> NoResult, result |-> res, error |-> hr.error,
                         resp |-> hr.resp, log |-> hr.log]]
    /\ UNCHANGED <<router, attached, srvRouter, state, mode, listener, signal, result, atSignal, served,
                   tracingInits, building, calls>>

\* a faulty dispatch: the matched route is moved to the front of the list
DispatchReorders(c, req) ==
    /\ state \in {"Running", "Draining"}
    /\ conns[c].st \in {"fresh", "idle"}
    /\ LET i == RouteLookup(srvRouter, req)
       IN  IF i # 0
           THEN /\ conns' = [conns EXCEPT ![c] =
                    [ClosedConn EXCEPT !.st = "suspended", !.req = req,
                                       !.invoked = <<srvRouter[i].handler>>]]
                /\ srvRouter' = <<srvRouter[i]>> \o SubSeq(srvRouter, 1, i - 1)
                                    \o SubSeq(srvRouter, i + 1, Len(srvRouter))
           ELSE LET res == RouterHandleMiss(req)
                    hr  == HandleResult(req, res)
                IN  /\ conns' = [conns EXCEPT ![c] =
                        [st |-> "responded", req |-> req, invoked |-> <<>>,
                         returned |-> NoResult, result |-> res, error |-> hr.error,
                         resp |-> hr.resp, log |-> hr.log]]
                    /\ srvRouter' = srvRouter
    /\ UNCHANGED <<router, attached, state, mode, listener, signal, result, atSignal, served,
                   tracingInits, building, calls>>

\* the transport hands a parsed request to the connection's service:
\* handle_request runs Router::handle; a matching route's handler is invoked
\* and its future awaited, otherwise the request is answered at once
Dispatch(c, req) ==
    /\ state \in {"Running", "Draining"}
    /\ conns[c].st \in {"fresh", "idle"}
    /\ LET i == RouteLookup(srvRouter, req)
       IN  IF i # 0
           THEN conns' = [conns EXCEPT ![c] =
                    [ClosedConn EXCEPT !.st = "suspended", !.req = req,
                                       !.invoked = <<srvRouter[i].handler>>]]
           ELSE LET res == RouterHandleMiss(req)
                    hr  == HandleResult(req, res)
                IN  conns' = [conns EXCEPT ![c] =
                        [st |-> "responded", req |-> req, invoked |-> <<>>,
                         returned |-> NoResult, result |-> res, error |-> hr.error,
                         resp |-> hr.resp, log |-> hr.log]]
    /\ UNCHANGED <<router, attached, srvRouter, state, mode, listener, signal, result, atSignal, served,
                   tracingInits, building, calls>>

\* a faulty hit: a handler's error is wrapped into an Internal error
RouterHandleHitWraps(out) ==
    IF out.tag = "Err" THEN Err(ErrorOf("Internal", Display(out.err))) ELSE out

\* Router::handle on a match: return (route.handler)(req).await
RouterHandleHit(out) ==
    out

\* the handler's future resolves to out: Router::handle returns it and
\* handle_request turns it into the response
HandlerReturn(c, out) ==
    /\ conns[c].st = "suspended"
    /\ LET res == RouterHandleHit(out)
           hr  == HandleResult(conns[c].req, res)
       IN  conns' = [conns EXCEPT ![c] =
               [@ EXCEPT !.st = "responded", !.returned = out, !.result = res,
                         !.error = hr.error, !.resp = hr.resp, !.log = hr.log]]
    /\ UNCHANGED <<router, attached, srvRouter, state, mode, listener, signal, result, atSignal, served,
                   tracingInits, building, calls>>

\* the transport writes the response; the connection is kept alive unless the
\* server is draining
Deliver(c) ==
    /\ conns[c].st = "responded"
    /\ conns' = [conns EXCEPT ![c] = IF state = "Draining" THEN ClosedConn ELSE IdleConn]
    /\ served' = IF c \in atSignal THEN served \cup {c} ELSE served
    /\ UNCHANGED <<router, attached, srvRouter, state, mode, listener, signal, result, atSignal,
                   tracingInits, building, calls>>

\* a faulty shutdown: the signal drops every connection, in flight or not
SignalAbortsInFlight ==
    /\ mode = "graceful"
    /\ state = "Running"
    /\ signal' = TRUE
    /\ state' = "Draining"
    /\ listener' = "closed"
    /\ conns' = [c \in Conns |-> ClosedConn]
    /\ atSignal' = {c \in Conns : conns[c].st \in {"suspended", "responded"}}
    /\ UNCHANGED <<router, attached, srvRouter, mode, result, served,
                   tracingInits, building, calls>>

\* with_graceful_shutdown(signal): the signal resolves; hyper drops the
\* listener, closes idle connections and lets the others finish their request
Signal ==
    /\ mode = "graceful"
    /\ state = "Running"
    /\ signal' = TRUE
    /\ state' = "Draining"
    /\ listener' = "closed"
    /\ conns' = [c \in Conns |-> IF conns[c].st = "idle" THEN ClosedConn ELSE conns[c]]
    /\ atSignal' = {c \in Conns : InFlight(c)}
    /\ UNCHANGED <<router, attached, srvRouter, mode, result, served,
                   tracingInits, building, calls>>

\* a faulty drain: the call returns as soon as the signal has resolved
DrainCompleteEarly ==
    /\ state = "Draining"
    /\ state' = "Stopped"
    /\ result' = "Ok"
    /\ UNCHANGED <<router, attached, srvRouter, mode, listener, signal, conns, atSignal, served,
                   tracingInits, building, calls>>

\* graceful.await resolves once every connection is gone: Ok(())
DrainComplete ==
    /\ state = "Draining"
    /\ \A c \in Conns : conns[c].st = "closed"
    /\ state' = "Stopped"
    /\ result' = "Ok"
    /\ UNCHANGED <<router, attached, srvRouter, mode, listener, signal, conns, atSignal, served,
                   tracingInits, building, calls>>

\* a faulty return: the listener's error is logged and the call returns Ok(())
ListenerErrorSwallowed ==
    /\ state = "Running"
    /\ listener = "listening"
    /\ listener' = "failed"
    /\ state' = "Stopped"
    /\ result' = "Ok"
    /\ UNCHANGED <<router, attached, srvRouter, mode, signal, conns, atSignal, served,
                   tracingInits, building, calls>>

\* server.await / graceful.await resolves to Err(e): return Err(ServerError::Hyper(e))
ListenerError ==
    /\ state = "Running"
    /\ listener = "listening"
    /\ listener' = "failed"
    /\ state' = "Stopped"
    /\ result' = "ErrHyper"
    /\ UNCHANGED <<router, attached, srvRouter, mode, signal, conns, atSignal, served,
                   tracingInits, building, calls>>

---------------------------------------------------------------------------
(* The Response builder, as a handler uses it *)

\* arguments of the builder calls
S_Para == <<"<", "p", ">">>
BuilderStatuses == {OK, CREATED, NOT_FOUND}
BuilderKeys == {"Content-Type", "X-Id"}
BuilderValues == {"text/css", "7"}
BuilderTexts == {S_Boom, S_Para}
BuilderJson == {Ok(S_Json1), Err(ErrorOf("Json", S_Boom))}

\* the chain can go on: no json call has failed, and the history is bounded
CanCall ==
    /\ building.tag = "Ok"
    /\ Len(calls) < MaxCalls

CallFrame == UNCHANGED <<router, attached, srvRouter, state, mode, listener, signal, result,
                         conns, atSignal, served, tracingInits>>

\* .status(s)
Status(s) ==
    /\ CanCall
    /\ building' = Ok(ResponseStatus(building.val, s))
    /\ calls' = Append(calls, [op |-> "status", status |-> s])
    /\ CallFrame

\* .header(k, v)
Header(k, v) ==
    /\ CanCall
    /\ building' = Ok(ResponseHeader(building.val, k, v))
    /\ calls' = Append(calls, [op |-> "header", key |-> k, value |-> v])
    /\ CallFrame

\* .body(b)
Body(b) ==
    /\ CanCall
    /\ building' = Ok(ResponseBody(building.val, b))
    /\ calls' = Append(calls, [op |-> "body", text |-> b])
    /\ CallFrame

\* .text(t)
Text(t) ==
    /\ CanCall
    /\ building' = Ok(ResponseText(building.val, t))
    /\ calls' = Append(calls, [op |-> "text", text |-> t])
    /\ CallFrame

\* .html(h)
Html(h) ==
    /\ CanCall
    /\ building' = Ok(ResponseHtml(building.val, h))
    /\ calls' = Append(calls, [op |-> "html", text |-> h])
    /\ CallFrame

\* .json(value): the chain ends with the error when serialization fails
Json(ser) ==
    /\ CanCall
    /\ building' = ResponseJson(building.val, ser)
    /\ calls' = Append(calls, [op |-> "json", ser |-> ser])
    /\ CallFrame

---------------------------------------------------------------------------
(* Specifications *)

Init ==
    /\ router = RouterNew
    /\ attached = FALSE
    /\ srvRouter = RouterNew
    /\ state = "Constructed"
    /\ mode = "none"
    /\ listener = "unbound"
    /\ signal = FALSE
    /\ result = "pending"
    /\ conns = [c \in Conns |-> ClosedConn]
    /\ atSignal = {}
    /\ served = {}
    /\ tracingInits = 0
    /\ building = Ok(ResponseNew)
    /\ calls = <<>>

\* requests sent to the demonstration server
ServerRequests ==
    { Request("GET", P_Health, NoQuery), Request("GET", P_AsyncDemo, NoQuery),
      Request("GET", P_Missing, NoQuery) }

\* the demonstration server under concurrent connections
Next ==
    \/ BuildMain
    \/ WithRouter
    \/ OtherServerRun
    \/ \E g \in BOOLEAN, b \in BOOLEAN : Run(g, b)
    \/ \E c \in Conns : Accept(c)
    \/ \E c \in Conns : ClientClose(c)
    \/ \E c \in Conns, req \in ServerRequests : Dispatch(c, req)
    \/ \E c \in Conns, out \in Outcomes : HandlerReturn(c, out)
    \/ \E c \in Conns : Deliver(c)
    \/ Signal
    \/ DrainComplete
    \/ ListenerError

Spec == Init /\ [][Next]_vars

\* a handler building one response by a chain of builder calls
NextResponse ==
    \/ \E s \in BuilderStatuses : Status(s)
    \/ \E k \in BuilderKeys, v \in BuilderValues : Header(k, v)
    \/ \E b \in BuilderTexts : Body(b)
    \/ \E t \in BuilderTexts : Text(t)
    \/ \E h \in BuilderTexts : Html(h)
    \/ \E ser \in BuilderJson : Json(ser)

SpecResponse == Init /\ [][NextResponse]_vars

\* requests and handler results of the server under shutdown
DrainRequests ==
    { Request("GET", P_AsyncDemo, NoQuery), Request("GET", P_Missing, NoQuery) }
DrainOutcomes ==
    { Ok(ResponseJson(ResponseNew, Ok(S_Json1)).val), Err(ErrorOf("Internal", S_Boom)) }

\* main: the demonstration server run with a shutdown signal
NextDrain ==
    \/ BuildMain
    \/ WithRouter
    \/ Run(TRUE, TRUE)
    \/ \E c \in Conns : Accept(c)
    \/ \E c \in Conns : ClientClose(c)
    \/ \E c \in Conns, req \in DrainRequests : Dispatch(c, req)
    \/ \E c \in Conns, out \in DrainOutcomes : HandlerReturn(c, out)
    \/ \E c \in Conns : Deliver(c)
    \/ Signal
    \/ DrainComplete

\* the runtime polls every task that can make progress: a response that is
\* ready is written, the serving future resolves when it can; every handler
\* completes; a client that has sent no request on a connection of a
\* draining server closes it
Fairness ==
    /\ \A c \in Conns : WF_vars(\E out \in DrainOutcomes : HandlerReturn(c, out))
    /\ \A c \in Conns : WF_vars(Deliver(c))
    /\ \A c \in Conns : WF_vars(state = "Draining" /\ ClientClose(c))
    /\ WF_vars(DrainComplete)

SpecDrain == Init /\ [][NextDrain]_vars /\ Fairness

\* paths routes are registered with, and request targets
RoutePaths == {P_Users, P_UsersSl, P_Users1}
RequestPaths == {P_Users, P_UsersSl, P_UsersCap, P_Users1}

RouterRequests ==
    { Request(m, p, NoQuery) : m \in HttpMethod, p \in RequestPaths }
    \cup { Request(m, P_Users, SomeQuery(Q_Q)) : m \in HttpMethod }
RouterOutcomes == { Ok(ResponseJson(ResponseNew, Ok(S_Json1)).val),
                    Err(ErrorOf("BadRequest", S_Boom)) }

\* every router of up to MaxRoutes routes, serving one connection
NextRouter ==
    \/ \E p \in RoutePaths : Get(p)
    \/ \E p \in RoutePaths : Post(p)
    \/ \E p \in RoutePaths : Put(p)
    \/ \E p \in RoutePaths : Delete(p)
    \/ \E p \in RoutePaths : Patch(p)
    \/ \E m \in Method, p \in RoutePaths : Route(m, p)
    \/ WithRouter
    \/ attached /\ Run(FALSE, TRUE)
    \/ Accept(1)
    \/ \E req \in RouterRequests : Dispatch(1, req)
    \/ \E out \in RouterOutcomes : HandlerReturn(1, out)
    \/ Deliver(1)

SpecRouter == Init /\ [][NextRouter]_vars

---------------------------------------------------------------------------
(* Properties of routing, under SpecRouter *)

\* the routes of the attached router registered for exactly (method, path)
RoutesFor(method, path) ==
    { i \in 1..Len(srvRouter) : srvRouter[i].method = method /\ srvRouter[i].path = path }

\* the request in service on c was handed to no handler and answered 404
\* from a RouteNotFound error
AnsweredNotFound(c) ==
    /\ conns[c].st = "responded"
    /\ conns[c].invoked = <<>>
    /\ conns[c].result.tag = "Err"
    /\ conns[c].result.err.kind = "RouteNotFound"
    /\ conns[c].resp.status = 404

\* the request in service on c was handed to the handler of one of the routes
\* in R, and what Router::handle returned is what that handler returned
HandledByOneOf(c, R) ==
    /\ \E i \in R : conns[c].invoked = <<srvRouter[i].handler>>
    /\ conns[c].st = "responded" =>
          /\ conns[c].returned # NoResult
          /\ conns[c].result = conns[c].returned

\* C1 as stated: for every router and every request, if a route is
\* registered with exactly the request's method and path, the handler of such
\* a route is invoked and its result returned; otherwise Router::handle fails
\* with RouteNotFound and the server answers 404.
C1_ExactMethodRouted ==
    \A c \in Conns : InFlight(c) =>
        LET req == conns[c].req
            R   == RoutesFor(req.method, req.path)
        IN  IF R # {} THEN HandledByOneOf(c, R) ELSE AnsweredNotFound(c)

\* C1 amended: the same, with the request's method taken as GET when it is
\* none of GET, POST, PUT, DELETE, PATCH, HEAD, OPTIONS.
C1_ConvertedMethodRouted ==
    \A c \in Conns : InFlight(c) =>
        LET req == conns[c].req
            m   == IF req.method \in {"GET", "POST", "PUT", "DELETE", "PATCH", "HEAD", "OPTIONS"}
                   THEN req.method ELSE "GET"
            R   == RoutesFor(m, req.path)
        IN  IF R # {} THEN HandledByOneOf(c, R) ELSE AnsweredNotFound(c)

\* C1 witness: a POST request whose route is the second of two was handled by
\* that route's handler and answered, and the router has served a 404 case too
\* (a route for another path is registered).
C1_Witness ==
    /\ Len(srvRouter) = 2
    /\ srvRouter[2].method = "POST"
    /\ srvRouter[1].path # srvRouter[2].path
    /\ conns[1].st = "responded"
    /\ conns[1].req.method = "POST"
    /\ conns[1].req.path = srvRouter[2].path
    /\ conns[1].invoked = <<srvRouter[2].handler>>
    /\ conns[1].result.tag = "Ok"

\* C2: when several routes are registered with the same (method, path), a
\* request for that pair is dispatched to the handler of the earliest of them.
C2_EarliestDuplicateWins ==
    \A c \in Conns : InFlight(c) =>
        LET req == conns[c].req
            R   == RoutesFor(req.method, req.path)
        IN  Cardinality(R) >= 2 =>
                \E i \in R : /\ \A j \in R : i <= j
                             /\ conns[c].invoked = <<srvRouter[i].handler>>

\* C2 witness: two routes share (method, path) and a request for it is being
\* served by the first one's handler.
C2_Witness ==
    /\ Len(srvRouter) >= 2
    /\ srvRouter[1].method = srvRouter[2].method
    /\ srvRouter[1].path = srvRouter[2].path
    /\ conns[1].st = "responded"
    /\ conns[1].req.method = srvRouter[1].method
    /\ conns[1].req.path = srvRouter[1].path
    /\ conns[1].invoked = <<srvRouter[1].handler>>

\* C3: a GET request for /users/, /Users or /users/1 is never handed to the
\* handler of a route registered for /users (nor of any route whose path is
\* not exactly the request's), and is answered RouteNotFound unless a GET
\* route with exactly that path is registered.
C3_ExactPathOnly ==
    \A c \in Conns :
        (/\ InFlight(c)
         /\ conns[c].req.method = "GET"
         /\ conns[c].req.path \in {P_UsersSl, P_UsersCap, P_Users1}) =>
            /\ \A i \in 1..Len(srvRouter) :
                   conns[c].invoked = <<srvRouter[i].handler>> =>
                       /\ srvRouter[i].path # P_Users
                       /\ srvRouter[i].path = conns[c].req.path
            /\ RoutesFor("GET", conns[c].req.path) = {} => AnsweredNotFound(c)

\* C3 witness: GET /users is registered, GET /users/ is not, and a GET
\* request for /users/ was answered RouteNotFound.
C3_Witness ==
    /\ RoutesFor("GET", P_Users) # {}
    /\ RoutesFor("GET", P_UsersSl) = {}
    /\ conns[1].req.method = "GET"
    /\ conns[1].req.path = P_UsersSl
    /\ AnsweredNotFound(1)

---------------------------------------------------------------------------
(* Properties of error responses, under Spec *)

\* the request in service on c was answered from an error
AnsweredError(c) ==
    /\ conns[c].st = "responded"
    /\ conns[c].error # NoError

\* C4: the error-to-status mapping is total over the error kinds
\* (RouteNotFound 404, BadRequest 400, Http, Hyper, Io, Json and Internal
\* 500), and the status of every error response sent is the mapped status.
C4_StatusMapped ==
    LET mapped(k) == CASE k = "RouteNotFound" -> 404
                       [] k = "BadRequest"    -> 400
                       [] k \in {"Http", "Hyper", "Io", "Json", "Internal"} -> 500
    IN  /\ \A k \in ErrorKind : StatusCode(ErrorOf(k, S_Boom)) = mapped(k)
        /\ \A c \in Conns : AnsweredError(c) =>
               /\ conns[c].error.kind \in ErrorKind
               /\ conns[c].resp.status = mapped(conns[c].error.kind)

\* C4 witness: a BadRequest was answered 400 on one connection while an I/O
\* error was answered 500 on the other.
C4_Witness ==
    /\ AnsweredError(1)
    /\ conns[1].error.kind = "BadRequest"
    /\ conns[1].resp.status = 400
    /\ AnsweredError(2)
    /\ conns[2].error.kind = "Io"
    /\ conns[2].resp.status = 500

\* reading a JSON string literal from position i of s (the opening quote is
\* before i): the text it denotes and the position after its closing quote
RECURSIVE JsonString(_, _, _)
JsonString(s, i, acc) ==
    IF i > Len(s) THEN [ok |-> FALSE, text |-> <<>>, next |-> i]
    ELSE IF s[i] = "\"" THEN [ok |-> TRUE, text |-> acc, next |-> i + 1]
    ELSE IF s[i] \in {"\n", "\r", "\t"} THEN [ok |-> FALSE, text |-> <<>>, next |-> i]
    ELSE IF s[i] = "\\"
         THEN IF i + 1 > Len(s) THEN [ok |-> FALSE, text |-> <<>>, next |-> i]
              ELSE IF s[i + 1] \in {"\"", "\\", "/"}
                   THEN JsonString(s, i + 2, Append(acc, s[i + 1]))
              ELSE IF s[i + 1] = "n" THEN JsonString(s, i + 2, Append(acc, "\n"))
              ELSE [ok |-> FALSE, text |-> <<>>, next |-> i]
    ELSE JsonString(s, i + 1, Append(acc, s[i]))

\* body is the JSON object {"error": "<text>"}: the text, if it is
JsonErrorObject(body) ==
    LET open == <<"{", "\"", "e", "r", "r", "o", "r", "\"", ":", " ", "\"">>
    IN  IF ~IsPrefix(open, body) THEN [ok |-> FALSE, text |-> <<>>]
        ELSE LET str == JsonString(body, Len(open) + 1, <<>>)
             IN  IF str.ok /\ SubSeq(body, str.next, Len(body)) = <<"}">>
                 THEN [ok |-> TRUE, text |-> str.text]
                 ELSE [ok |-> FALSE, text |-> <<>>]

\* C5: for every error answered, whatever its kind and message, the body is
\* the JSON object {"error": "<the error's message>"} and the response
\* carries Content-Type: application/json.
C5_ErrorBodyIsJson ==
    \A c \in Conns : AnsweredError(c) =>
        /\ JsonErrorObject(conns[c].resp.body).ok
        /\ JsonErrorObject(conns[c].resp.body).text = Display(conns[c].error)
        /\ "content-type" \in DOMAIN conns[c].resp.headers
        /\ conns[c].resp.headers["content-type"] = {"application/json"}

---------------------------------------------------------------------------
(* Properties of the server's lifecycle, under Spec *)

\* C6: under run_with_graceful_shutdown, once the signal has resolved no
\* connection is accepted, and when the call returns every request that was
\* in flight when the signal resolved has had its response written.
C6_GracefulDrain ==
    [][ /\ signal => \A c \in Conns : conns[c].st = "closed" => conns'[c].st = "closed"
        /\ (signal' /\ state' = "Stopped") => served' = atSignal'
        /\ \A c \in Conns : (c \in served' /\ c \notin served) =>
               /\ conns[c].st = "responded"
               /\ conns[c].resp # NoResponse ]_vars

\* C6 witness: both connections had a request in flight when the signal
\* resolved, and the call has returned Ok(()) after both were answered.
C6_Witness ==
    /\ mode = "graceful"
    /\ signal
    /\ state = "Stopped"
    /\ result = "Ok"
    /\ atSignal = Conns
    /\ served = Conns

\* C7: while a request's handler is suspended on one connection, the
\* listener can accept another connection, and a request on another
\* connection can be dispatched, completed and answered, each leaving the
\* suspended handler as it is.
C7_Independent ==
    \A c \in Conns : \A d \in Conns \ {c} :
        conns[c].st = "suspended" =>
            /\ (state = "Running" /\ conns[d].st = "closed") =>
                   ENABLED (Accept(d) /\ conns'[c] = conns[c])
            /\ (state \in {"Running", "Draining"} /\ conns[d].st \in {"fresh", "idle"}) =>
                   \A req \in ServerRequests : ENABLED (Dispatch(d, req) /\ conns'[c] = conns[c])
            /\ conns[d].st = "suspended" =>
                   \A out \in Outcomes : ENABLED (HandlerReturn(d, out) /\ conns'[c] = conns[c])
            /\ conns[d].st = "responded" =>
                   ENABLED (Deliver(d) /\ conns'[c] = conns[c])

\* C7 witness: the handler of /async-demo is suspended on connection 1 and
\* the request for /health on connection 2 has been answered 200.
C7_Witness ==
    /\ conns[1].st = "suspended"
    /\ conns[1].req.path = P_AsyncDemo
    /\ conns[2].st = "responded"
    /\ conns[2].req.path = P_Health
    /\ conns[2].resp.status = 200

\* a response the transport can write: a status and, for an error, either
\* the error response or the bare 500 fallback
WellFormed(resp, error) ==
    /\ resp.status \in 100..599
    /\ error # NoError =>
          \/ /\ resp.status \in {400, 404, 500}
             /\ IsPrefix(<<"{", "\"", "e", "r", "r", "o", "r", "\"", ":", " ", "\"">>, resp.body)
          \/ /\ resp.status = 500
             /\ resp.body = S_Fallback

\* C8: whenever a request is answered (RouteNotFound, a handler's error, a
\* failed wire conversion or a success), the dispatch function hands the
\* transport a well-formed response (the fallback itself always builds), and
\* the step leaves the server's state, its listener and the result of run as
\* they were.
C8_ErrorsContained ==
    [][ \A c \in Conns :
          (conns[c].st # "responded" /\ conns'[c].st = "responded") =>
              /\ WellFormed(conns'[c].resp, conns'[c].error)
              /\ HyperBuild(INTERNAL_SERVER_ERROR, [k \in {} |-> ""], S_Fallback).tag = "Ok"
              /\ state' = state
              /\ listener' = listener
              /\ result' = result ]_vars

\* C8 witness: a failed wire conversion was answered 500 and a missing
\* route 404 while the server is still running.
C8_Witness ==
    /\ state = "Running"
    /\ AnsweredError(1)
    /\ conns[1].error.kind = "Http"
    /\ conns[1].result.tag = "Ok"
    /\ conns[1].resp.status = 500
    /\ AnsweredError(2)
    /\ conns[2].error.kind = "RouteNotFound"
    /\ conns[2].invoked = <<>>

\* C9: when the listener cannot be bound, the call gives its caller an error
\* result, and the server neither runs nor accepts a connection.
C9_BindFailureReported ==
    listener = "bind_failed" =>
        /\ result \in {"ErrHyper", "ErrIo"}
        /\ state # "Running"
        /\ \A c \in Conns : conns[c].st = "closed"

\* C10: an error of the listener ends the call with Err(ServerError::Hyper),
\* never with Ok(()), and nothing else (no request's error) makes the call
\* return an error.
C10_ListenerErrorReturned ==
    /\ listener = "failed" => (state = "Stopped" /\ result = "ErrHyper")
    /\ result = "ErrHyper" => listener = "failed"
    /\ (\E c \in Conns : AnsweredError(c)) /\ listener = "listening" => result = "pending"

\* C10 witness: the listener failed while a request's error had been answered
\* on a connection; the call returned the listener's error.
C10_Witness ==
    /\ listener = "failed"
    /\ result = "ErrHyper"
    /\ \E c \in Conns : AnsweredError(c)

---------------------------------------------------------------------------
(* Properties of logging and of what Router::handle returns *)

\* C11: every answered request is logged exactly once as METHOD PATH -
\* STATUS, with the status of the response given to the transport (a 201, a
\* 404, another error status, or the error response that replaces a response
\* whose wire conversion failed).
C11_LoggedWithSentStatus ==
    \A c \in Conns : conns[c].st = "responded" =>
        /\ Len(conns[c].log) = 1
        /\ conns[c].log[1].what = "request"
        /\ conns[c].log[1].method = conns[c].req.method
        /\ conns[c].log[1].path = conns[c].req.path
        /\ conns[c].log[1].status = conns[c].resp.status

\* the method Router::handle matches with: GET for an unrecognised method
ConvertedMethod(m) ==
    IF m \in {"GET", "POST", "PUT", "DELETE", "PATCH", "HEAD", "OPTIONS"} THEN m ELSE "GET"

\* C12 (under Spec): if a route matches, what Router::handle returns is what
\* the matched handler returned, Ok or Err of any kind, unchanged; the router
\* raises an error of its own only when no route matches, and it is
\* RouteNotFound.
C12_HandlerResultUnchanged ==
    \A c \in Conns : conns[c].st = "responded" =>
        IF RoutesFor(ConvertedMethod(conns[c].req.method), conns[c].req.path) # {}
        THEN /\ conns[c].invoked # <<>>
             /\ conns[c].returned \in Outcomes
             /\ conns[c].result = conns[c].returned
        ELSE /\ conns[c].invoked = <<>>
             /\ conns[c].returned = NoResult
             /\ conns[c].result.tag = "Err"
             /\ conns[c].result.err.kind = "RouteNotFound"

\* C12 witness: a handler's I/O error came back from Router::handle as it was.
C12_Witness ==
    /\ conns[1].st = "responded"
    /\ conns[1].invoked # <<>>
    /\ conns[1].returned = Err(ErrorOf("Io", S_Boom))
    /\ conns[1].result = Err(ErrorOf("Io", S_Boom))

\* the least element of a non-empty set of route indexes
MinOf(R) == CHOOSE i \in R : \A j \in R : i <= j

\* C13 (under SpecRouter): a request whose method is none of the seven is
\* dispatched as a GET request: to the first GET route with its path if there
\* is one, to no handler otherwise, and never to a route of another method.
C13_UnknownMethodAsGet ==
    \A c \in Conns :
        (InFlight(c) /\ conns[c].req.method \notin
             {"GET", "POST", "PUT", "DELETE", "PATCH", "HEAD", "OPTIONS"}) =>
            LET R == RoutesFor("GET", conns[c].req.path)
            IN  /\ R # {} => conns[c].invoked = <<srvRouter[MinOf(R)].handler>>
                /\ R = {} => AnsweredNotFound(c)
                /\ \A i \in 1..Len(srvRouter) :
                       conns[c].invoked = <<srvRouter[i].handler>> => srvRouter[i].method = "GET"

\* C13 witness: a TRACE request passed over a POST route for its path and
\* was handed to the GET route registered after it.
C13_Witness ==
    /\ Len(srvRouter) = 2
    /\ srvRouter[1].method = "POST"
    /\ srvRouter[2].method = "GET"
    /\ srvRouter[1].path = srvRouter[2].path
    /\ conns[1].req.method = "TRACE"
    /\ conns[1].req.path = srvRouter[2].path
    /\ conns[1].invoked = <<srvRouter[2].handler>>

\* the name of an HTTP method as text
MethodText(m) ==
    CASE m = "GET"     -> <<"G", "E", "T">>
      [] m = "POST"    -> <<"P", "O", "S", "T">>
      [] m = "PUT"     -> <<"P", "U", "T">>
      [] m = "DELETE"  -> <<"D", "E", "L", "E", "T", "E">>
      [] m = "PATCH"   -> <<"P", "A", "T", "C", "H">>
      [] m = "HEAD"    -> <<"H", "E", "A", "D">>
      [] m = "OPTIONS" -> <<"O", "P", "T", "I", "O", "N", "S">>
      [] m = "TRACE"   -> <<"T", "R", "A", "C", "E">>

---------------------------------------------------------------------------
(* Properties of the route list *)

\* C15 (under Spec): once the router is attached and the server has been
\* started, no step of any connection or of the lifecycle changes the
\* server's route list.
C15_RoutesFrozen ==
    [][state # "Constructed" => srvRouter' = srvRouter]_vars

\* C15 witness: with requests answered and in flight on both connections and
\* the drain begun, the server holds the routes it was given.
C15_Witness ==
    /\ srvRouter = MainRouter
    /\ state = "Draining"
    /\ conns[1].st = "responded"
    /\ conns[2].st = "suspended"

\* C16 (under SpecRouter): a call of Router::handle invokes at most one
\* handler, once: the handler of the first matching route when a route
\* matches, none otherwise; the handler of a later duplicate is not invoked.
C16_OneHandlerOnce ==
    \A c \in Conns :
        IF InFlight(c)
        THEN LET R == RoutesFor(ConvertedMethod(conns[c].req.method), conns[c].req.path)
             IN  /\ Len(conns[c].invoked) <= 1
                 /\ R # {} => conns[c].invoked = <<srvRouter[MinOf(R)].handler>>
                 /\ R = {} => conns[c].invoked = <<>>
        ELSE conns[c].invoked = <<>>

\* C16 witness: two routes for POST of the same path, a POST request for it
\* answered after one invocation, of the first route's handler.
C16_Witness ==
    /\ Len(srvRouter) = 2
    /\ srvRouter[1].method = "POST"
    /\ srvRouter[2].method = "POST"
    /\ srvRouter[1].path = srvRouter[2].path
    /\ srvRouter[1].handler # srvRouter[2].handler
    /\ conns[1].st = "responded"
    /\ conns[1].req.method = "POST"
    /\ conns[1].req.path = srvRouter[1].path
    /\ conns[1].invoked = <<srvRouter[1].handler>>

\* the step appended one route of this method and path and kept the others
AppendedOne(method, path) ==
    /\ Len(router') = Len(router) + 1
    /\ SubSeq(router', 1, Len(router)) = router
    /\ router'[Len(router')].method = method
    /\ router'[Len(router')].path = path

\* C17 (under SpecRouter): each registration call appends exactly one route,
\* of the call's method and path, at the end of the list and leaves the
\* earlier routes as they were; get, post, put, delete and patch give the
\* router that route gives with GET, POST, PUT, DELETE and PATCH.
C17_RegistrationAppends ==
    [][\A p \in RoutePaths :
          /\ Get(p) => AppendedOne("GET", p)
          /\ Post(p) => AppendedOne("POST", p)
          /\ Put(p) => AppendedOne("PUT", p)
          /\ Delete(p) => AppendedOne("DELETE", p)
          /\ Patch(p) => AppendedOne("PATCH", p)
          /\ \A m \in Method : Route(m, p) => AppendedOne(m, p)
          /\ RouterGet(router, p, NewHandler(router)) = RouterRoute(router, "GET", p, NewHandler(router))
          /\ RouterPost(router, p, NewHandler(router)) = RouterRoute(router, "POST", p, NewHandler(router))
          /\ RouterPut(router, p, NewHandler(router)) = RouterRoute(router, "PUT", p, NewHandler(router))
          /\ RouterDelete(router, p, NewHandler(router)) = RouterRoute(router, "DELETE", p, NewHandler(router))
          /\ RouterPatch(router, p, NewHandler(router)) = RouterRoute(router, "PATCH", p, NewHandler(router))
      ]_vars

\* C17 witness: a put and then a patch were registered; the list holds the
\* two routes in that order.
C17_Witness ==
    /\ Len(router) = 2
    /\ router[1].method = "PUT"
    /\ router[2].method = "PATCH"
    /\ router[1].handler = 1
    /\ router[2].handler = 2

---------------------------------------------------------------------------
(* Properties of the Response builder *)

\* one builder call applied to the chain's value
ApplyCall(b, call) ==
    IF b.tag = "Err" THEN b
    ELSE CASE call.op = "status" -> Ok(ResponseStatus(b.val, call.status))
           [] call.op = "header" -> Ok(ResponseHeader(b.val, call.key, call.value))
           [] call.op = "body"   -> Ok(ResponseBody(b.val, call.text))
           [] call.op = "text"   -> Ok(ResponseText(b.val, call.text))
           [] call.op = "html"   -> Ok(ResponseHtml(b.val, call.text))
           [] call.op = "json"   -> ResponseJson(b.val, call.ser)

\* the calls of a sequence applied in its order, the first i of them
RECURSIVE ApplyAll(_, _)
ApplyAll(cs, i) ==
    IF i = 0 THEN Ok(ResponseNew) ELSE ApplyCall(ApplyAll(cs, i - 1), cs[i])

\* the ways of reordering n calls: g[i] is the new place of the i-th call
Reorderings(n) ==
    { g \in [1..n -> 1..n] : \A i, j \in 1..n : g[i] = g[j] => i = j }

Reordered(cs, g) ==
    [k \in 1..Len(cs) |-> cs[CHOOSE i \in 1..Len(cs) : g[i] = k]]

\* C18 as stated (under SpecResponse): the same builder calls applied to a
\* new Response in any order give the same status, headers and body.
C18_OrderIndependent ==
    \A g \in Reorderings(Len(calls)) :
        ApplyAll(Reordered(calls, g), Len(calls)) = building

\* the parts of the Response a call sets
Sets(call) ==
    CASE call.op = "status" -> {<<"status">>}
      [] call.op = "header" -> {<<"header", call.key>>}
      [] call.op = "body"   -> {<<"body">>}
      [] OTHER              -> {<<"body">>, <<"header", "Content-Type">>}

\* the last call that sets a part, 0 when no call does
LastSetting(part) ==
    LET S == { i \in 1..Len(calls) : part \in Sets(calls[i]) }
    IN  IF S = {} THEN 0 ELSE CHOOSE i \in S : \A j \in S : j <= i

\* the value a call gives to the body, and to a header it sets
BodyOf(call) == IF call.op = "json" THEN call.ser.val ELSE call.text
HeaderOf(call) ==
    CASE call.op = "header" -> call.value
      [] call.op = "text"   -> "text/plain"
      [] call.op = "html"   -> "text/html"
      [] call.op = "json"   -> "application/json"

\* C18 amended: reordering the calls gives the same result as long as the
\* calls that set the same part (status; the same header key, where text,
\* html and json set Content-Type; the body) keep their order; each part has
\* the value of the last call that set it, or that of Response::new().
C18_LastCallWins ==
    /\ \A g \in Reorderings(Len(calls)) :
           (\A i, j \in 1..Len(calls) :
                (i < j /\ Sets(calls[i]) \cap Sets(calls[j]) # {}) => g[i] < g[j])
           => ApplyAll(Reordered(calls, g), Len(calls)) = building
    /\ building.tag = "Ok" =>
        /\ building.val.status =
              IF LastSetting(<<"status">>) = 0 THEN OK
              ELSE calls[LastSetting(<<"status">>)].status
        /\ building.val.body =
              IF LastSetting(<<"body">>) = 0 THEN <<>>
              ELSE BodyOf(calls[LastSetting(<<"body">>)])
        /\ DOMAIN building.val.headers =
              { k \in BuilderKeys : LastSetting(<<"header", k>>) # 0 }
        /\ \A k \in DOMAIN building.val.headers :
              building.val.headers[k] = HeaderOf(calls[LastSetting(<<"header", k>>)])

\* C18 witness: a status call and a text call, which set different parts,
\* were applied; the response has the status of the one and the body and
\* Content-Type of the other.
C18_Witness ==
    /\ Len(calls) = 2
    /\ calls[1].op = "text"
    /\ calls[2].op = "status"
    /\ building.tag = "Ok"
    /\ building.val.status = CREATED
    /\ building.val.body = S_Para
    /\ building.val.headers["Content-Type"] = "text/plain"

---------------------------------------------------------------------------
(* Properties of shutdown and of process-wide initialisation *)

C20_SecondRunNoPanic ==
    (mode # "none" /\ tracingInits > 1) => result # "panic"

---------------------------------------------------------------------------
(* Properties of the request target *)

\* C21 (under SpecRouter): matching looks at the path of the request target
\* only. Whatever the query (empty, plain, or one holding a question mark), a
\* request for a registered method and path selects the route that the
\* request without a query selects, and a RouteNotFound error carries the
\* path without the query; a request in service with a query, whose method
\* and path have a route, is handed to the first such route and is not
\* answered RouteNotFound; and the path in its RouteNotFound error and in its
\* log line is the path without the query.
C21_QueryIgnored ==
    /\ \A q \in {SomeQuery(<<>>), SomeQuery(Q_Q), SomeQuery(<<"a", "?", "b">>)} :
         /\ \A i \in 1..Len(srvRouter) :
              LET m == srvRouter[i].method
                  p == srvRouter[i].path
              IN  /\ RouteLookup(srvRouter, Request(m, p, q)) # 0
                  /\ RouteLookup(srvRouter, Request(m, p, q)) =
                         RouteLookup(srvRouter, Request(m, p, NoQuery))
         /\ \A p \in RequestPaths : RouterHandleMiss(Request("TRACE", p, q)).err.path = p
    /\ \A c \in Conns : (InFlight(c) /\ conns[c].req.query # NoQuery) =>
         LET R == RoutesFor(ConvertedMethod(conns[c].req.method), conns[c].req.path)
         IN  /\ R # {} => /\ conns[c].invoked = <<srvRouter[MinOf(R)].handler>>
                          /\ ~AnsweredNotFound(c)
             /\ AnsweredNotFound(c) => conns[c].result.err.path = conns[c].req.path
             /\ conns[c].st = "responded" =>
                    \A k \in 1..Len(conns[c].log) : conns[c].log[k].path = conns[c].req.path

\* C21 witness: the router holds a GET route for /users and a GET request
\* for /users?q was handed to that route's handler, answered and logged under
\* /users.
C21_Witness ==
    /\ Len(srvRouter) >= 1
    /\ srvRouter[1].method = "GET"
    /\ srvRouter[1].path = P_Users
    /\ conns[1].st = "responded"
    /\ conns[1].req.method = "GET"
    /\ conns[1].req.uri = P_Users \o <<"?">> \o Q_Q
    /\ conns[1].invoked = <<srvRouter[1].handler>>
    /\ conns[1].log[1].path = P_Users

===========================================================================
